---- MODULE Spec2Model ----
(***************************************************************************)
(* The StarLine integration: the account/session manager                   *)
(* (components/starline/account.py) and the entry lifecycle                *)
(* (components/starline/__init__.py).                                      *)
(*                                                                         *)
(* One config entry.  Every async_setup_entry constructs a new             *)
(* StarlineAccount; the accounts are numbered in the order of their        *)
(* construction, and the number of an account whose setup ended "not       *)
(* ready" is taken again by the next one.  The blocking refreshes          *)
(* (_update_data, _update_obd_data) run on executor threads: a running     *)
(* invocation occupies the slot of its method and advances one statement   *)
(* at a time, so that a refresh of the state and a refresh of the OBD      *)
(* state interleave.                                                       *)
(*                                                                         *)
(* Spec is the entry with its refreshes, timers and forced refreshes;      *)
(* SpecCalls follows the set-intervals operations, SpecPolling the loaded  *)
(* entry left to its timers (with the fairness of the scheduler), and      *)
(* SpecAttrs the attribute helpers applied to device snapshots.            *)
(***************************************************************************)
EXTENDS Bags, FiniteSets, Integers, Sequences, TLC

\* ---- bounds of the model ------------------------------------------------
MaxSetups == 1          \* async_setup_entry succeeds at most this many times
MaxTicks == 1           \* the clock advances at most this many times
TimeStep == 100         \* seconds per clock advance
InitExpires == 250      \* DATA_EXPIRES stored when the entry was created
TokenLifetime == 300    \* a new session token expires this long after now

\* ---- constants of the program --------------------------------------------
\* (MIN_SCAN_INTERVAL and MIN_SCAN_OBD_INTERVAL are the literals of the two
\* vol.Range(min=...) of async_setup_entry)
CONF_SCAN_INTERVAL == "scan_interval"
CONF_SCAN_OBD_INTERVAL == "scan_obd_interval"
DEFAULT_SCAN_INTERVAL == 180
DEFAULT_SCAN_OBD_INTERVAL == 3600
MIN_SCAN_INTERVAL == 10
MIN_SCAN_OBD_INTERVAL == 100
SERVICE_UPDATE_STATE == "update_state"
SERVICE_UPDATE_OBD_STATE == "update_obd_state"
SERVICE_SET_SCAN_INTERVAL == "set_scan_interval"
SERVICE_SET_SCAN_OBD_INTERVAL == "set_scan_obd_interval"
PLATFORMS == {"device_tracker", "sensor"}

Keys == {CONF_SCAN_INTERVAL, CONF_SCAN_OBD_INTERVAL}
KeyOrder == <<CONF_SCAN_INTERVAL, CONF_SCAN_OBD_INTERVAL>>
Services == {SERVICE_UPDATE_STATE, SERVICE_UPDATE_OBD_STATE,
             SERVICE_SET_SCAN_INTERVAL, SERVICE_SET_SCAN_OBD_INTERVAL}

\* ---- input domains --------------------------------------------------------
Accounts == 1..MaxSetups
\* (session token, user id) pairs the remote exchange may return; the entry
\* is created with session token 0 of user 1
Exchanges == { [tok |-> 1, uid |-> 1], [tok |-> 2, uid |-> 2] }
SlidToken == "slid"               \* the identity token of the entry
Devices == {"car"}                \* devices the remote account holds
\* The options the options flow may store.  The entry is created with no
\* options, for which the defaults apply.
OptionChoices ==
    { [k \in Keys |-> IF k = CONF_SCAN_INTERVAL THEN 10 ELSE 7200] }
\* payloads of a set-intervals service call: the state interval alone, the
\* OBD interval alone, or both
StateInputs == {5, 20}
ObdInputs == {50, 200}
CallData ==
    { [k \in {CONF_SCAN_INTERVAL} |-> v] : v \in StateInputs } \cup
    { [k \in {CONF_SCAN_OBD_INTERVAL} |-> v] : v \in ObdInputs } \cup
    { [k \in Keys |-> IF k = CONF_SCAN_INTERVAL THEN x[1] ELSE x[2]] :
        x \in StateInputs \X ObdInputs }

EmptyMap == [k \in {} |-> 0]
\* dict.get(key, default)
Get(map, key, default) == IF key \in DOMAIN map THEN map[key] ELSE default

\* ---- subscriptions ---------------------------------------------------------
\* no set-intervals call yet
NoCall == [service |-> "none", data |-> EmptyMap, result |-> "none"]
\* the value of _unsubscribe_auto_updater[key] when it is None
NoSub == [acct |-> 0, key |-> "none", method |-> "none", period |-> 0]

VARIABLES
    now,                       \* datetime.now().timestamp()
    entry_data,                \* config_entry.data
    entry_options,             \* config_entry.options
    entry_state,               \* the host's view of the entry
    update_listeners,          \* number of listeners added to the entry
    hass_data,                 \* hass.data[DOMAIN][entry_id]: account or 0
    device_registry,           \* devices with a registry record
    forwarded,                 \* platforms the setup was forwarded to
    services,                  \* service name -> registering account or 0
    created,                   \* number of the newest account
    update_intervals,          \* account -> _update_intervals
    unsubscribe_auto_updater,  \* account -> _unsubscribe_auto_updater
    api,                       \* account -> the StarlineApi client
    subs,                      \* bag of live recurring subscriptions
    slots,                     \* running refresh invocations
    setup_acct,                \* account under construction, or 0
    call,                      \* the last set-intervals call and its outcome
    op,                        \* the operation that produced this state
    attrs                      \* the last attribute projection and its outcome

vars == <<now, entry_data, entry_options, entry_state, update_listeners,
          hass_data, device_registry, forwarded, services, created,
          update_intervals, unsubscribe_auto_updater, api, subs, slots,
          setup_acct, call, op, attrs>>

hostVars == <<entry_state, update_listeners, hass_data, device_registry,
              forwarded, services>>
acctVars == <<update_intervals, unsubscribe_auto_updater, subs>>

\* ---- StarlineAccount -------------------------------------------------------
\* The account state the subscription operations work on:
\*   intervals = _update_intervals, unsub = _unsubscribe_auto_updater (both
\*   per account), subs = the scheduler's live subscriptions, cancels = the
\*   number of cancellation handles invoked so far by the running operation.
AcctState(cancels) ==
    [intervals |-> update_intervals, unsub |-> unsubscribe_auto_updater,
     subs |-> subs, cancels |-> cancels]

\* __init__: the default intervals, no subscription, a client built from
\* the stored user id and session token.
NewIntervals ==
    [k \in Keys |-> IF k = CONF_SCAN_INTERVAL THEN DEFAULT_SCAN_INTERVAL
                    ELSE DEFAULT_SCAN_OBD_INTERVAL]
NewUnsub == [k \in Keys |-> NoSub]
NewApi(data) ==
    [user_id |-> data.user_id, slnet_token |-> data.slnet_token,
     available |-> FALSE]
\* what an account slot holds before its account is constructed
BlankApi == [user_id |-> 0, slnet_token |-> 0, available |-> FALSE]

\* Invoking the handle async_track_time_interval returned: the subscription
\* it stands for is removed from the scheduler.
CancelSub(st, handle) ==
    [st EXCEPT !.subs = @ (-) SetToBag({handle}), !.cancels = @ + 1]

\* line 102 with self.update for either key
MethodForUpdateOnly(key) == "update"

\* The callback set_update_interval binds to a key.
MethodFor(key) == IF key = CONF_SCAN_INTERVAL THEN "update" ELSE "update_obd"

\* set_update_interval that installs the new subscription without cancelling
\* the one the handle stands for
SetUpdateIntervalNoCancel(a, key, interval, st) ==
    LET new == [acct |-> a, key |-> key, method |-> MethodFor(key),
                period |-> interval]
    IN  [st EXCEPT !.unsub[a][key] = new, !.subs = @ (+) SetToBag({new})]

\* set_update_interval that cancels and clears the handle of every name
\* before it installs the new subscription
SetUpdateIntervalCancelsAll(a, key, interval, st) ==
    LET other == CHOOSE k \in Keys : k # key
        old == st.unsub[a][key]
        oldOther == st.unsub[a][other]
        st1 == IF old # NoSub THEN CancelSub(st, old) ELSE st
        st2 == IF oldOther # NoSub
               THEN [CancelSub(st1, oldOther) EXCEPT !.unsub[a][other] = NoSub]
               ELSE st1
        new == [acct |-> a, key |-> key, method |-> MethodFor(key),
                period |-> interval]
    IN  [st2 EXCEPT !.unsub[a][key] = new, !.subs = @ (+) SetToBag({new})]

\* set_update_interval(key, interval)
SetUpdateInterval(a, key, interval, st) ==
    LET old == st.unsub[a][key]
        st1 == IF old # NoSub THEN CancelSub(st, old) ELSE st
        new == [acct |-> a, key |-> key, method |-> MethodFor(key),
                period |-> interval]
    IN  [st1 EXCEPT !.unsub[a][key] = new, !.subs = @ (+) SetToBag({new})]

\* the loop body of unload() without line 115: the handle is called and kept
UnloadKeyNoClear(a, key, st) ==
    LET old == st.unsub[a][key]
    IN  IF old # NoSub THEN CancelSub(st, old) ELSE st

\* one iteration of the loop of unload()
UnloadKey(a, key, st) ==
    LET old == st.unsub[a][key]
    IN  IF old # NoSub
        THEN [CancelSub(st, old) EXCEPT !.unsub[a][key] = NoSub]
        ELSE st

\* unload(): the keys in the dict's insertion order
Unload(a, st) == UnloadKey(a, KeyOrder[2], UnloadKey(a, KeyOrder[1], st))

\* async_options_updated that does not read the options: the defaults always
AsyncOptionsUpdatedDefaults(a, options, st) ==
    SetUpdateInterval(a, CONF_SCAN_OBD_INTERVAL, DEFAULT_SCAN_OBD_INTERVAL,
        SetUpdateInterval(a, CONF_SCAN_INTERVAL, DEFAULT_SCAN_INTERVAL, st))

\* async_options_updated: both intervals from the options, or the defaults
AsyncOptionsUpdated(a, options, st) ==
    LET scan_interval == Get(options, CONF_SCAN_INTERVAL, DEFAULT_SCAN_INTERVAL)
        scan_obd_interval ==
            Get(options, CONF_SCAN_OBD_INTERVAL, DEFAULT_SCAN_OBD_INTERVAL)
    IN  SetUpdateInterval(a, CONF_SCAN_OBD_INTERVAL, scan_obd_interval,
            SetUpdateInterval(a, CONF_SCAN_INTERVAL, scan_interval, st))

\* _check_slnet_token: the condition under which the token is renewed
TokenStale(a, intervals, data, t) ==
    t + intervals[a][CONF_SCAN_INTERVAL] > data.expires

\* _update_data with its two statements swapped: the remote refresh first,
\* the token check after it
NextPcUpdateFirst(pc, branch) ==
    CASE pc = "start"      -> "update"
      [] pc = "update"     -> IF branch THEN "check" ELSE "raise"
      [] pc = "check"      -> IF branch THEN "get_user_id" ELSE "return"
      [] pc = "get_user_id" -> IF branch THEN "set_client" ELSE "return"
      [] pc = "set_client" -> "update_entry"
      [] pc = "update_entry" -> "return"

\* The statement order of _update_data / _update_obd_data with
\* _check_slnet_token and _update_slnet_token inlined: the statement that
\* follows `pc`; `branch` is the outcome of the statement at `pc` (the
\* staleness test, whether get_user_id returned, whether the remote refresh
\* returned).  Nothing catches an error of the remote refresh: it leaves the
\* method.
NextPc(pc, branch) ==
    CASE pc = "start"      -> "check"
      [] pc = "check"      -> IF branch THEN "get_user_id" ELSE "update"
      [] pc = "get_user_id" -> IF branch THEN "set_client" ELSE "update"
      [] pc = "set_client" -> "update_entry"
      [] pc = "update_entry" -> "update"
      [] pc = "update"     -> IF branch THEN "return" ELSE "raise"

\* async_update_entry given the new triple alone, without **config_entry.data
RenewedDataNoMerge(data, slnet_token, slnet_token_expires, user_id) ==
    [slnet_token |-> slnet_token, expires |-> slnet_token_expires,
     user_id |-> user_id, slid_token |-> ""]

\* the data written by _update_slnet_token's async_update_entry
RenewedData(data, slnet_token, slnet_token_expires, user_id) ==
    [data EXCEPT !.slnet_token = slnet_token,
                 !.expires = slnet_token_expires,
                 !.user_id = user_id]

\* ---- attribute helpers --------------------------------------------------------
\* None
Null == "null"
\* What a helper leaves: the mapping it returns, or the error that leaves it.
Returned(value) == [raised |-> FALSE, value |-> value]
Raised(error) == [raised |-> TRUE, value |-> error]
\* map[key]: the value, or KeyError
HasKey(map, key) == key \in DOMAIN map

\* datetime.utcfromtimestamp(ts).isoformat() for a whole number of seconds
\* ts >= 0: "YYYY-MM-DDTHH:MM:SS", as the sequence of its characters
DigitChars == <<"0", "1", "2", "3", "4", "5", "6", "7", "8", "9">>
Pad2(n) == <<DigitChars[((n \div 10) % 10) + 1], DigitChars[(n % 10) + 1]>>
Pad4(n) == Pad2(n \div 100) \o Pad2(n % 100)
IsLeap(y) == (y % 4 = 0 /\ y % 100 # 0) \/ y % 400 = 0
DaysInYear(y) == IF IsLeap(y) THEN 366 ELSE 365
DaysInMonth(y, m) ==
    IF m = 2 THEN (IF IsLeap(y) THEN 29 ELSE 28)
    ELSE IF m \in {4, 6, 9, 11} THEN 30 ELSE 31
RECURSIVE YearOf(_, _)
YearOf(days, y) ==
    IF days < DaysInYear(y) THEN [year |-> y, day |-> days]
    ELSE YearOf(days - DaysInYear(y), y + 1)
RECURSIVE MonthOf(_, _, _)
MonthOf(y, days, m) ==
    IF days < DaysInMonth(y, m) THEN [month |-> m, day |-> days + 1]
    ELSE MonthOf(y, days - DaysInMonth(y, m), m + 1)
IsoFormat(ts) ==
    LET yd == YearOf(ts \div 86400, 1970)
        md == MonthOf(yd.year, yd.day, 1)
        secs == ts % 86400
    IN  Pad4(yd.year) \o <<"-">> \o Pad2(md.month) \o <<"-">> \o Pad2(md.day)
        \o <<"T">> \o Pad2(secs \div 3600) \o <<":">>
        \o Pad2((secs % 3600) \div 60) \o <<":">> \o Pad2(secs % 60)

\* gps_attrs: position["ts"] is subscripted, every other field is read as it is
gps_attrs(device) ==
    IF ~HasKey(device.position, "ts") THEN Raised("KeyError")
    ELSE Returned([updated |-> IsoFormat(device.position["ts"]),
                   online |-> device.online])
\* balance_attrs: three keys of device.balance, each by .get
balance_attrs(device) ==
    Returned([operator |-> Get(device.balance, "operator", Null),
              state |-> Get(device.balance, "state", Null),
              updated |-> Get(device.balance, "ts", Null)])
\* gsm_attrs
gsm_attrs(device) ==
    Returned([raw |-> device.gsm_level, imei |-> device.imei,
              phone |-> device.phone, online |-> device.online])
\* errors_attrs
errors_attrs(device) ==
    Returned([errors |-> Get(device.errors, "errors", Null)])

\* The device snapshots the helpers are applied to: the mappings of a
\* snapshot hold any subset of their keys, the IMEI and the phone number may
\* be None.
Timestamps == {0, 86399, 5097600, 68173261}
Positions == {EmptyMap} \cup { [k \in {"ts"} |-> t] : t \in Timestamps }
BalanceFull == [operator |-> "MTS", state |-> 100, ts |-> 1]
Balances ==
    { [k \in ks |-> BalanceFull[k]] : ks \in SUBSET DOMAIN BalanceFull }
ErrorMaps == {EmptyMap, [k \in {"errors"} |-> <<>>],
              [k \in {"errors"} |-> <<"P0300">>]}
DeviceSnapshots ==
    [position : Positions, online : BOOLEAN, balance : Balances,
     gsm_level : {20}, imei : {Null, "imei"}, phone : {Null, "+7"},
     errors : ErrorMaps]
\* no helper applied yet
NoAttrs == [helper |-> "none", device |-> EmptyMap, result |-> Returned(EmptyMap)]

\* ---- the host's contract ---------------------------------------------------
\* vol.Schema({vol.Required(key): vol.All(vol.Coerce(int), vol.Range(min=m))}):
\* the payload holds the required key, its value is at least m, and it holds
\* no other key (a Schema rejects extra keys unless told otherwise).  The
\* payloads drawn here hold integers, which Coerce(int) leaves as they are.
SchemaKey(service) ==
    IF service = SERVICE_SET_SCAN_INTERVAL THEN CONF_SCAN_INTERVAL
    ELSE CONF_SCAN_OBD_INTERVAL
SchemaMin(service) ==
    IF service = SERVICE_SET_SCAN_INTERVAL THEN MIN_SCAN_INTERVAL
    ELSE MIN_SCAN_OBD_INTERVAL
\* the schema without vol.Range
SchemaValidNoRange(service, data) ==
    /\ SchemaKey(service) \in DOMAIN data
    /\ DOMAIN data \subseteq {SchemaKey(service)}

SchemaValid(service, data) ==
    /\ SchemaKey(service) \in DOMAIN data
    /\ data[SchemaKey(service)] >= SchemaMin(service)
    /\ DOMAIN data \subseteq {SchemaKey(service)}

\* async_set_scan_interval: the options it hands to async_update_entry, or the
\* KeyError of call.data[...] for a key the payload lacks.
AsyncSetScanInterval(options, data) ==
    IF Keys \subseteq DOMAIN data
    THEN [raised |-> FALSE,
          options |-> [k \in DOMAIN options \cup Keys |-> data[k]]]
    ELSE [raised |-> TRUE, options |-> options]

\* The entry's update listeners, each running async_options_updated on the
\* account the registry holds.
RECURSIVE RunListeners(_, _, _)
RunListeners(n, options, st) ==
    IF n = 0 THEN st
    ELSE RunListeners(n - 1, options, AsyncOptionsUpdated(hass_data, options, st))

\* ---- refresh invocations -----------------------------------------------------
\* One running invocation per refresh method: a scheduled call, a forced
\* call (both of origin "callback") or the setup occupies the method's slot.
Slots == {"update", "update_obd"}
IdleSlot ==
    [pc |-> "idle", method |-> "none", acct |-> 0, origin |-> "none",
     tok |-> 0, exp |-> 0, uid |-> 0, log |-> <<>>]
StartSlot(a, method, origin) ==
    [IdleSlot EXCEPT !.pc = NextPc("start", TRUE), !.method = method,
                     !.acct = a, !.origin = origin]
\* The invocation goes on at `pc`.  A callback that returns (or raises) is
\* over and frees its slot; a refresh of the setup is awaited by
\* async_setup_entry, which goes on from there.
Advance(slot, pc) ==
    IF pc \in {"return", "raise"} /\ slot.origin # "setup"
    THEN IdleSlot
    ELSE [slot EXCEPT !.pc = pc]

\* An account lives as long as something refers to it: the registry, the
\* running setup, a registered service, a live subscription or a running
\* invocation.  The client of an account nothing refers to is dropped.
Referenced(a, registry, setup, svc, live, running) ==
    \/ a = registry
    \/ a = setup
    \/ \E s \in Services : svc[s] = a
    \/ \E sub \in BagToSet(live) : sub.acct = a
    \/ \E s \in Slots : running[s].acct = a
Collect(clients, registry, setup, svc, live, running) ==
    [a \in Accounts |->
        IF Referenced(a, registry, setup, svc, live, running)
        THEN clients[a] ELSE BlankApi]

\* The operation that produced the state, for the operations of the entry
\* lifecycle, with the number of cancellation handles it invoked; any other
\* step leaves NoOp.
OpRec(name, result, cancels) ==
    [name |-> name, result |-> result, cancels |-> cancels]
NoOp == OpRec("none", "ok", 0)

Init ==
    /\ now = 0
    /\ entry_data = [user_id |-> 1, slnet_token |-> 0, expires |-> InitExpires,
                     slid_token |-> SlidToken]
    /\ entry_options = EmptyMap
    /\ entry_state = "not_loaded"
    /\ update_listeners = 0
    /\ hass_data = 0
    /\ device_registry = {}
    /\ forwarded = {}
    /\ services = [s \in Services |-> 0]
    /\ created = 0
    /\ update_intervals = [a \in Accounts |-> NewIntervals]
    /\ unsubscribe_auto_updater = [a \in Accounts |-> NewUnsub]
    /\ api = [a \in Accounts |-> BlankApi]
    /\ subs = EmptyBag
    /\ slots = [s \in Slots |-> IdleSlot]
    /\ setup_acct = 0
    /\ call = NoCall
    /\ op = NoOp
    /\ attrs = NoAttrs

\* _check_slnet_token, lines 46-49
CheckSlnetToken(s) ==
    /\ slots[s].pc = "check"
    /\ LET stale == TokenStale(slots[s].acct, update_intervals, entry_data, now)
           logged == [slots[s] EXCEPT !.log =
                        Append(@, IF stale THEN "check_stale" ELSE "check_fresh")]
       IN  slots' = [slots EXCEPT ![s] = Advance(logged, NextPc("check", stale))]
    /\ op' = NoOp
    /\ UNCHANGED <<now, entry_data, entry_options, hostVars, created, acctVars,
                   api, setup_acct, call,
                   attrs>>

\* _update_slnet_token, lines 54-59: the remote exchange returns a new triple
GetUserId(s) ==
    /\ slots[s].pc = "get_user_id"
    /\ \E x \in Exchanges :
         slots' = [slots EXCEPT ![s] =
            Advance([@ EXCEPT !.tok = x.tok, !.exp = now + TokenLifetime,
                              !.uid = x.uid],
                    NextPc("get_user_id", TRUE))]
    /\ op' = NoOp
    /\ UNCHANGED <<now, entry_data, entry_options, hostVars, created, acctVars,
                   api, setup_acct, call,
                   attrs>>

\* _update_slnet_token without its try/except: the error of get_user_id
\* leaves the refresh
RenewFailurePropagates(client, data) ==
    [api |-> client, data |-> data, raised |-> TRUE]

\* an except clause that stores the failed renewal as if it had succeeded:
\* the stored expiry is moved on by the lifetime of a token
RenewFailureMovesExpiry(client, data) ==
    [api |-> client,
     data |-> [data EXCEPT !.expires = @ + (MaxTicks + 1) * TokenLifetime],
     raised |-> FALSE]

\* What the except clause of _update_slnet_token leaves when get_user_id
\* raises: the error is logged, nothing is written, nothing propagates.
RenewFailure(client, data) ==
    [api |-> client, data |-> data, raised |-> FALSE]

\* _update_slnet_token, lines 56-59 and 71-72: the remote exchange raises
GetUserIdFails(s) ==
    /\ slots[s].pc = "get_user_id"
    /\ LET a == slots[s].acct
           r == RenewFailure(api[a], entry_data)
           logged == [slots[s] EXCEPT !.log = Append(@, "renew_failed")]
       IN  /\ api' = [api EXCEPT ![a] = r.api]
           /\ entry_data' = r.data
           /\ slots' = [slots EXCEPT ![s] =
                Advance(logged, IF r.raised THEN "raise"
                                ELSE NextPc("get_user_id", FALSE))]
    /\ op' = NoOp
    /\ UNCHANGED <<now, entry_options, hostVars, created, acctVars, setup_acct,
                   call, attrs>>

\* _update_slnet_token, lines 60-61: the two setters of the client
SetClient(s) ==
    /\ slots[s].pc = "set_client"
    /\ api' = [api EXCEPT ![slots[s].acct].slnet_token = slots[s].tok,
                          ![slots[s].acct].user_id = slots[s].uid]
    /\ slots' = [slots EXCEPT ![s] = Advance(@, NextPc("set_client", TRUE))]
    /\ op' = NoOp
    /\ UNCHANGED <<now, entry_data, entry_options, hostVars, created, acctVars,
                   setup_acct, call,
                   attrs>>

\* _update_slnet_token, lines 62-70
UpdateEntryData(s) ==
    /\ slots[s].pc = "update_entry"
    /\ entry_data' = RenewedData(entry_data, slots[s].tok, slots[s].exp, slots[s].uid)
    /\ slots' = [slots EXCEPT ![s] =
            Advance([@ EXCEPT !.log = Append(@, "renewed"),
                              !.tok = 0, !.exp = 0, !.uid = 0],
                    NextPc("update_entry", TRUE))]
    /\ op' = NoOp
    /\ UNCHANGED <<now, entry_options, hostVars, created, acctVars, api,
                   setup_acct, call,
                   attrs>>

\* _update_data line 77 / _update_obd_data line 82: the remote refresh, after
\* which the client reports itself available or not
ApiUpdate(s) ==
    /\ slots[s].pc = "update"
    /\ slots' = [slots EXCEPT ![s] =
            Advance([@ EXCEPT !.log = Append(@, "update")],
                    NextPc("update", TRUE))]
    /\ \E ok \in BOOLEAN :
         api' = Collect([api EXCEPT ![slots[s].acct].available = ok],
                        hass_data, setup_acct, services, subs, slots')
    /\ op' = NoOp
    /\ UNCHANGED <<now, entry_data, entry_options, hostVars, created, acctVars,
                   setup_acct, call,
                   attrs>>

\* _update_data line 77 / _update_obd_data line 82: the remote refresh raises.
\* The error of a scheduled or forced call leaves the callback and is
\* recorded as the outcome of the poll; the one of the setup's refresh
\* leaves async_setup_entry.
ApiUpdateRaises(s) ==
    /\ slots[s].pc = "update"
    /\ LET pc == NextPc("update", FALSE)
       IN  /\ slots' = [slots EXCEPT ![s] =
                    Advance([@ EXCEPT !.log = Append(@, "update")], pc)]
           /\ op' = IF slots[s].origin = "callback"
                    THEN OpRec("poll_error",
                               IF pc = "raise" THEN "raised" ELSE "returned", 0)
                    ELSE NoOp
    /\ api' = Collect(api, hass_data, setup_acct, services, subs, slots')
    /\ UNCHANGED <<now, entry_data, entry_options, hostVars, created, acctVars,
                   setup_acct, call,
                   attrs>>

\* ---- entry lifecycle ----------------------------------------------------------
\* async_setup_entry, lines 30-31: construct the account, start the first
\* refresh
AsyncSetupEntryStart ==
    /\ entry_state = "not_loaded"
    /\ created < MaxSetups
    /\ slots["update"].pc = "idle"
    /\ LET a == created + 1
       IN  /\ created' = a
           /\ setup_acct' = a
           /\ update_intervals' = [update_intervals EXCEPT ![a] = NewIntervals]
           /\ unsubscribe_auto_updater' =
                  [unsubscribe_auto_updater EXCEPT ![a] = NewUnsub]
           /\ api' = [api EXCEPT ![a] = NewApi(entry_data)]
           /\ slots' = [slots EXCEPT !["update"] = StartSlot(a, "update", "setup")]
    /\ entry_state' = "setup_in_progress"
    /\ op' = NoOp
    /\ UNCHANGED <<now, entry_data, entry_options, update_listeners, hass_data,
                   device_registry, forwarded, services, subs, call,
                   attrs>>

\* async_setup_entry, line 32: the first refresh is over, start the second
AsyncSetupEntryObd ==
    /\ slots["update"].pc = "return"
    /\ slots["update"].origin = "setup"
    /\ slots["update_obd"].pc = "idle"
    /\ slots' = [slots EXCEPT
            !["update"] = IdleSlot,
            !["update_obd"] = StartSlot(setup_acct, "update_obd", "setup")]
    /\ op' = NoOp
    /\ UNCHANGED <<now, entry_data, entry_options, hostVars, created, acctVars,
                   api, setup_acct, call,
                   attrs>>

\* async_setup_entry without the availability test
NotReadyNeverRaised(client) == FALSE

\* async_setup_entry, lines 33-34: the test that ends the setup "not ready"
NotReady(client) == ~client.available

\* the awaited refresh of the setup is over (or has raised)
SetupRefreshed(s, pc) == slots[s].origin = "setup" /\ slots[s].pc = pc
SetupRaised ==
    SetupRefreshed("update", "raise") \/ SetupRefreshed("update_obd", "raise")

\* async_setup_entry, lines 33-34 taken: ConfigEntryNotReady (or the error
\* of a refresh leaves async_setup_entry).  Nothing references the account
\* any more; its place is blanked.
AsyncSetupEntryNotReady ==
    /\ entry_state = "setup_in_progress"
    /\ \/ SetupRefreshed("update_obd", "return") /\ NotReady(api[setup_acct])
       \/ SetupRaised
    /\ entry_state' = "not_loaded"
    /\ setup_acct' = 0
    /\ api' = [api EXCEPT ![setup_acct] = BlankApi]
    /\ slots' = [s \in Slots |->
                    IF slots[s].origin = "setup" THEN IdleSlot ELSE slots[s]]
    /\ created' = created - 1
    /\ op' = OpRec("setup", IF SetupRaised THEN "raised" ELSE "not_ready", 0)
    /\ UNCHANGED <<now, entry_data, entry_options, update_listeners, hass_data,
                   device_registry, forwarded, services, acctVars, call,
                   attrs>>

\* async_setup_entry, lines 36-86
AsyncSetupEntryFinish ==
    /\ entry_state = "setup_in_progress"
    /\ SetupRefreshed("update_obd", "return")
    /\ ~NotReady(api[setup_acct])
    /\ LET a == setup_acct
           st == AsyncOptionsUpdated(a, entry_options, AcctState(0))
       IN  /\ hass_data' = a
           /\ device_registry' = device_registry \cup Devices
           /\ forwarded' = PLATFORMS
           /\ services' = [s \in Services |-> a]
           /\ update_listeners' = update_listeners + 1
           /\ update_intervals' = st.intervals
           /\ unsubscribe_auto_updater' = st.unsub
           /\ subs' = st.subs
           /\ op' = OpRec("setup", "ok", st.cancels)
    /\ entry_state' = "loaded"
    /\ setup_acct' = 0
    /\ slots' = [slots EXCEPT !["update_obd"] = IdleSlot]
    /\ api' = Collect(api, hass_data', setup_acct', services', subs', slots')
    /\ UNCHANGED <<now, entry_data, entry_options, created, call,
                   attrs>>

\* async_unload_entry
AsyncUnloadEntry ==
    /\ entry_state = "loaded"
    /\ LET st == Unload(hass_data, AcctState(0))
       IN  /\ update_intervals' = st.intervals
           /\ unsubscribe_auto_updater' = st.unsub
           /\ subs' = st.subs
           /\ op' = OpRec("unload", "ok", st.cancels)
    /\ forwarded' = {}
    /\ entry_state' = "not_loaded"
    /\ UNCHANGED <<now, entry_data, entry_options, update_listeners, hass_data,
                   device_registry, services, created, api, slots, setup_acct,
                   call, attrs>>

\* The host stores new options for the entry and notifies the listeners.
UpdateOptions(options, name) ==
    /\ entry_options' = options
    /\ LET st == RunListeners(update_listeners, options, AcctState(0))
       IN  /\ update_intervals' = st.intervals
           /\ unsubscribe_auto_updater' = st.unsub
           /\ subs' = st.subs
           /\ op' = OpRec(name, "ok", st.cancels)

\* the entry's options flow stores one of the option sets
OptionsFlow ==
    /\ \E options \in OptionChoices : UpdateOptions(options, "options_flow")
    /\ UNCHANGED <<now, entry_data, hostVars, created, api, slots, setup_acct,
                   call, attrs>>

\* A call of set_scan_interval / set_scan_obd_interval: the schema, then
\* async_set_scan_interval, lines 51-56
ServiceSetScanInterval ==
    /\ \E service \in {SERVICE_SET_SCAN_INTERVAL, SERVICE_SET_SCAN_OBD_INTERVAL},
          data \in CallData :
         /\ services[service] # 0
         /\ IF ~SchemaValid(service, data)
            THEN /\ call' = [service |-> service, data |-> data,
                             result |-> "invalid"]
                 /\ op' = OpRec("set_intervals", "invalid", 0)
                 /\ UNCHANGED <<entry_options, acctVars>>
            ELSE LET r == AsyncSetScanInterval(entry_options, data)
                 IN  IF r.raised
                     THEN /\ call' = [service |-> service, data |-> data,
                                      result |-> "key_error"]
                          /\ op' = OpRec("set_intervals", "key_error", 0)
                          /\ UNCHANGED <<entry_options, acctVars>>
                     ELSE /\ call' = [service |-> service, data |-> data,
                                      result |-> "ok"]
                          /\ UpdateOptions(r.options, "set_intervals")
    /\ UNCHANGED <<now, entry_data, hostVars, created, api, slots, setup_acct,
                   attrs>>

\* A call of update_state / update_obd_state: the bound method of the
\* account that registered the service, lines 58-59
ServiceUpdate ==
    /\ \E service \in {SERVICE_UPDATE_STATE, SERVICE_UPDATE_OBD_STATE} :
         LET method == IF service = SERVICE_UPDATE_STATE THEN "update"
                       ELSE "update_obd"
         IN  /\ services[service] # 0
             /\ slots[method].pc = "idle"
             /\ slots' = [slots EXCEPT ![method] =
                    StartSlot(services[service], method, "callback")]
    /\ op' = NoOp
    /\ UNCHANGED <<now, entry_data, entry_options, hostVars, created, acctVars,
                   api, setup_acct, call,
                   attrs>>

\* A live subscription fires: the scheduler calls the method it was
\* installed with (not before the previous call of that method is over).
TimerFire ==
    /\ \E sub \in BagToSet(subs) :
         /\ slots[sub.method].pc = "idle"
         /\ slots' = [slots EXCEPT ![sub.method] =
                StartSlot(sub.acct, sub.method, "callback")]
    /\ op' = NoOp
    /\ UNCHANGED <<now, entry_data, entry_options, hostVars, created, acctVars,
                   api, setup_acct, call,
                   attrs>>

\* The clock advances; a renewal under way is over within one step of the
\* clock.
Tick ==
    /\ now < MaxTicks * TimeStep
    /\ \A s \in Slots : slots[s].pc \notin {"set_client", "update_entry"}
    /\ now' = now + TimeStep
    /\ op' = NoOp
    /\ UNCHANGED <<entry_data, entry_options, hostVars, created, acctVars, api,
                   slots, setup_acct, call,
                   attrs>>

Refresh ==
    \E s \in Slots :
        \/ CheckSlnetToken(s)
        \/ GetUserId(s)
        \/ GetUserIdFails(s)
        \/ SetClient(s)
        \/ UpdateEntryData(s)
        \/ ApiUpdate(s)
        \/ ApiUpdateRaises(s)

Lifecycle ==
    \/ AsyncSetupEntryStart
    \/ AsyncSetupEntryObd
    \/ AsyncSetupEntryNotReady
    \/ AsyncSetupEntryFinish
    \/ AsyncUnloadEntry
    \/ OptionsFlow

\* The entry, its account and the refreshes that run on it.  The
\* set-intervals operations, which leave all of this as it is, are followed
\* under SpecCalls.
Next ==
    \/ Lifecycle
    \/ ServiceUpdate
    \/ TimerFire
    \/ Tick
    \/ Refresh

Spec == Init /\ [][Next]_vars

\* The entry and the set-intervals operations called on it, each call
\* recorded with its payload and outcome; the refreshes are those of the
\* setup.
NextCalls ==
    \/ Lifecycle
    \/ ServiceSetScanInterval
    \/ Tick
    \/ Refresh

SpecCalls == Init /\ [][NextCalls]_vars

\* An entity platform applies a helper to a device snapshot; the helpers are
\* pure, so one application from the initial state shows all they do.
entryVars == <<now, entry_data, entry_options, hostVars, created, acctVars,
               api, slots, setup_acct, call, op>>
Projected(helper, device, result) ==
    [helper |-> helper, device |-> device, result |-> result]
GpsAttrs ==
    /\ attrs.helper = "none"
    /\ \E device \in DeviceSnapshots :
         attrs' = Projected("gps_attrs", device, gps_attrs(device))
    /\ UNCHANGED entryVars
BalanceAttrs ==
    /\ attrs.helper = "none"
    /\ \E device \in DeviceSnapshots :
         attrs' = Projected("balance_attrs", device, balance_attrs(device))
    /\ UNCHANGED entryVars
GsmAttrs ==
    /\ attrs.helper = "none"
    /\ \E device \in DeviceSnapshots :
         attrs' = Projected("gsm_attrs", device, gsm_attrs(device))
    /\ UNCHANGED entryVars
ErrorsAttrs ==
    /\ attrs.helper = "none"
    /\ \E device \in DeviceSnapshots :
         attrs' = Projected("errors_attrs", device, errors_attrs(device))
    /\ UNCHANGED entryVars

NextAttrs ==
    \/ GpsAttrs
    \/ BalanceAttrs
    \/ GsmAttrs
    \/ ErrorsAttrs

SpecAttrs == Init /\ [][NextAttrs]_vars

\* The loaded entry left alone: nothing unloads it and no operation is
\* called on it, so that polling stays subscribed.  The scheduler calls the
\* callbacks of the live subscriptions again and again, the executor runs
\* every job it was given to its end, and the remote exchange, tried again
\* and again, succeeds in the end.
NextPolling ==
    \/ AsyncSetupEntryStart
    \/ AsyncSetupEntryObd
    \/ AsyncSetupEntryNotReady
    \/ AsyncSetupEntryFinish
    \/ OptionsFlow
    \/ TimerFire
    \/ Tick
    \/ Refresh

FairPolling ==
    /\ WF_vars(TimerFire)
    /\ \A s \in Slots :
         /\ WF_vars(CheckSlnetToken(s))
         /\ WF_vars(GetUserId(s) \/ GetUserIdFails(s))
         /\ WF_vars(SetClient(s))
         /\ WF_vars(UpdateEntryData(s))
         /\ WF_vars(ApiUpdate(s) \/ ApiUpdateRaises(s))
    /\ SF_vars(\E s \in Slots : GetUserId(s))

SpecPolling == Init /\ [][NextPolling]_vars /\ FairPolling

\* ---- properties ------------------------------------------------------------------
\* the live subscriptions of an account for an interval name, and their number
LiveSubs(live, a, key) ==
    { sub \in BagToSet(live) : sub.acct = a /\ sub.key = key }
LiveCount(live, a, key) ==
    BagCardinality([sub \in LiveSubs(live, a, key) |-> live[sub]])

\* the state interval configured for an account: the period its live state
\* subscription was installed with
ConfiguredStateInterval(a) ==
    unsubscribe_auto_updater[a][CONF_SCAN_INTERVAL].period

\* slot s takes the step at pc
StepAt(s, pc) == slots[s].pc = pc /\ slots'[s] # slots[s]

\* C1: a state refresh of an account whose state interval S was applied
\* through set_update_interval renews the token iff now + S > stored expiry.
C1_RenewIffConfiguredStale ==
    [][\A s \in Slots :
        (/\ StepAt(s, "check")
         /\ slots[s].method = "update"
         /\ unsubscribe_auto_updater[slots[s].acct][CONF_SCAN_INTERVAL] # NoSub)
        => (slots'[s].pc = "get_user_id"
              <=> now + ConfiguredStateInterval(slots[s].acct) > entry_data.expires)
      ]_vars

\* C2: every account has at most one live subscription per interval name,
\* the one its handle stands for; with a handle set there is exactly one.
C2_OneSubscriptionPerName ==
    \A a \in Accounts, key \in Keys :
        /\ LiveCount(subs, a, key) <= 1
        /\ unsubscribe_auto_updater[a][key] # NoSub
             => /\ LiveCount(subs, a, key) = 1
                /\ CopiesIn(unsubscribe_auto_updater[a][key], subs) = 1
        /\ unsubscribe_auto_updater[a][key] = NoSub => LiveCount(subs, a, key) = 0
\* the options were applied to an account that was subscribed already
C2_Witness ==
    /\ op.name = "options_flow"
    /\ op.cancels >= 2
    /\ \A key \in Keys : LiveCount(subs, hass_data, key) = 1

\* C3: in every state, unload() of an account leaves it no live subscription
\* and no handle, a second unload() changes nothing and calls no handle, and
\* unload() of an account without handles changes nothing and calls no handle.
C3_UnloadIdempotent ==
    \A a \in Accounts :
        LET st1 == Unload(a, AcctState(0))
            st2 == Unload(a, st1)
        IN  /\ \A key \in Keys :
                 /\ st1.unsub[a][key] = NoSub
                 /\ LiveCount(st1.subs, a, key) = 0
            /\ st2 = st1
            /\ (\A key \in Keys : unsubscribe_auto_updater[a][key] = NoSub)
                 => st1 = AcctState(0)
\* async_unload_entry has cancelled both subscriptions of the account
C3_Witness ==
    /\ op.name = "unload"
    /\ op.cancels = 2
    /\ \A key \in Keys :
         /\ unsubscribe_auto_updater[hass_data][key] = NoSub
         /\ LiveCount(subs, hass_data, key) = 0

\* C4: when get_user_id raises, the stored data and the client are as
\* before, nothing propagates, and the invocation goes on to the remote refresh.
C4_RenewFailureKeepsToken ==
    [][\A s \in Slots :
        (StepAt(s, "get_user_id") /\ slots'[s].tok = 0)
        => /\ entry_data' = entry_data
           /\ api' = api
           /\ slots'[s].pc = "update"
           /\ slots'[s].acct = slots[s].acct
      ]_vars
\* a refresh about to call the remote refresh after a failed renewal
C4_Witness ==
    \E s \in Slots :
        /\ slots[s].pc = "update"
        /\ slots[s].log = <<"check_stale", "renew_failed">>

\* C5: a setup whose client is unavailable after both refreshes ends "not
\* ready" and leaves the registry, the device registry, the forwarded
\* platforms, the services, the listeners and the subscriptions as they were,
\* with no record or subscription of its account.
C5_NotReadyCreatesNothing ==
    [][(/\ entry_state = "setup_in_progress"
        /\ SetupRefreshed("update_obd", "return")
        /\ ~api[setup_acct].available
        /\ entry_state' # entry_state)
       => /\ entry_state' = "not_loaded"
          /\ op'.name = "setup" /\ op'.result = "not_ready"
          /\ UNCHANGED <<hass_data, device_registry, forwarded, services,
                         update_listeners, subs, unsubscribe_auto_updater>>
          /\ hass_data' # setup_acct
          /\ \A key \in Keys : LiveCount(subs', setup_acct, key) = 0
      ]_vars
\* the first setup of the entry has ended "not ready"
C5_Witness ==
    /\ op.name = "setup" /\ op.result = "not_ready"
    /\ hass_data = 0
    /\ device_registry = {} /\ forwarded = {} /\ update_listeners = 0
    /\ \A s \in Services : services[s] = 0
    /\ subs = EmptyBag

\* the payload of a set-intervals call passes the validation of the
\* operation: a state interval >= 10 and an OBD interval >= 100
PassesValidation(data) ==
    /\ Keys \subseteq DOMAIN data
    /\ data[CONF_SCAN_INTERVAL] >= MIN_SCAN_INTERVAL
    /\ data[CONF_SCAN_OBD_INTERVAL] >= MIN_SCAN_OBD_INTERVAL
\* the payload holds a state interval < 10 or an OBD interval < 100
BelowMinimum(data) ==
    \/ /\ CONF_SCAN_INTERVAL \in DOMAIN data
       /\ data[CONF_SCAN_INTERVAL] < MIN_SCAN_INTERVAL
    \/ /\ CONF_SCAN_OBD_INTERVAL \in DOMAIN data
       /\ data[CONF_SCAN_OBD_INTERVAL] < MIN_SCAN_OBD_INTERVAL

\* C6: after a set-intervals call whose payload passes validation, the
\* options of the entry are the payload and both subscriptions of the
\* registered account run with the requested intervals.
C6_ValidCallPersists ==
    (op.name = "set_intervals" /\ PassesValidation(call.data))
    => /\ entry_options = call.data
       /\ \A key \in Keys :
            unsubscribe_auto_updater[hass_data][key].period = call.data[key]

\* C7: a set-intervals call with a state interval < 10 or an OBD interval
\* < 100 is rejected by the schema; the handler is not reached, and the
\* options, the handles and the subscriptions stay as they were.
C7_BelowMinimumRejected ==
    [][(op'.name = "set_intervals" /\ BelowMinimum(call'.data))
       => /\ call'.result = "invalid"
          /\ UNCHANGED <<entry_options, update_intervals,
                         unsubscribe_auto_updater, subs>>
      ]_vars
\* the call set-intervals(state=5, obd=50) has been rejected
C7_Witness ==
    /\ op.name = "set_intervals"
    /\ call.result = "invalid"
    /\ call.data = [k \in Keys |-> IF k = CONF_SCAN_INTERVAL THEN 5 ELSE 50]

\* C8: the interval an account stores for a name is the period of that
\* name's live subscription.
C8_StoredIntervalIsPeriod ==
    \A a \in Accounts, key \in Keys :
        unsubscribe_auto_updater[a][key] # NoSub
        => update_intervals[a][key] = unsubscribe_auto_updater[a][key].period

\* C9: a renewal that got its triple sets the client's session token and
\* user id to those of the triple, and stores the triple with every other
\* stored field (the identity token) as it was.
C9_RenewalWritesTriple ==
    [][\A s \in Slots :
        /\ StepAt(s, "set_client")
             => /\ api'[slots[s].acct].slnet_token = slots[s].tok
                /\ api'[slots[s].acct].user_id = slots[s].uid
        /\ StepAt(s, "update_entry")
             => /\ entry_data'.slnet_token = slots[s].tok
                /\ entry_data'.expires = slots[s].exp
                /\ entry_data'.user_id = slots[s].uid
                /\ entry_data'.slid_token = entry_data.slid_token
                /\ DOMAIN entry_data' = DOMAIN entry_data
      ]_vars
\* a renewal has stored a new triple and the client holds its token
C9_Witness ==
    \E s \in Slots :
        /\ slots[s].pc = "update"
        /\ slots[s].log = <<"check_stale", "renewed">>
        /\ entry_data.slnet_token # 0
        /\ entry_data.slid_token = SlidToken
        /\ api[slots[s].acct].slnet_token = entry_data.slnet_token
        /\ api[slots[s].acct].user_id = entry_data.user_id

\* C10: an invocation that is at, or past, its remote refresh has made its
\* token check first, and after a stale check its renewal (stored or
\* failed), all before the refresh.
C10_CheckBeforeRefresh ==
    \A s \in Slots :
        LET log == slots[s].log
            before == IF slots[s].pc = "update" THEN log
                      ELSE SubSeq(log, 1, Len(log) - 1)
        IN  (slots[s].pc = "update" \/ \E i \in 1..Len(log) : log[i] = "update")
            => /\ Len(before) >= 1
               /\ before[1] \in {"check_fresh", "check_stale"}
               /\ \A i \in 1..Len(before) : before[i] # "update"
               /\ before[1] = "check_stale"
                    => /\ Len(before) = 2
                       /\ before[2] \in {"renewed", "renew_failed"}
               /\ before[1] = "check_fresh" => Len(before) = 1
\* stored expiry 250, now 100, state interval 180: the refresh of a timer or
\* an operation has renewed the token and is about to poll
C10_Witness ==
    \E s \in Slots :
        /\ slots[s].origin = "callback"
        /\ slots[s].pc = "update"
        /\ slots[s].log = <<"check_stale", "renewed">>

\* C11: when the remote refresh raises during a scheduled or forced poll, the
\* error does not leave the callback (the callback returns), and the
\* subscriptions stay as they were.
C11_PollErrorContained ==
    [][\A s \in Slots :
        (StepAt(s, "update") /\ op'.name = "poll_error")
        => /\ op'.result = "returned"
           /\ subs' = subs
      ]_vars

\* C12: each of the four helpers returns a mapping for every device
\* snapshot, also one that lacks a projected key, and a key the snapshot
\* lacks projects to None.
C12_AttrsNeverRaise ==
    attrs.helper # "none"
    => /\ ~attrs.result.raised
       /\ attrs.helper = "gps_attrs" /\ ~HasKey(attrs.device.position, "ts")
            => attrs.result.value.updated = Null
       /\ attrs.helper = "balance_attrs"
            => \A k \in {"operator", "state"} :
                 ~HasKey(attrs.device.balance, k) => attrs.result.value[k] = Null
       /\ attrs.helper = "errors_attrs" /\ ~HasKey(attrs.device.errors, "errors")
            => attrs.result.value.errors = Null

\* a scheduled poll has found the token stale and its renewal has failed
PollRenewalFailed ==
    \E s \in Slots :
        /\ slots[s].origin = "callback"
        /\ slots[s].pc = "update"
        /\ slots[s].log = <<"check_stale", "renew_failed">>
\* a renewal has stored a new triple
TokenRenewed ==
    /\ entry_data.slnet_token # 0
    /\ entry_data.expires # InitExpires

\* C13: a failed renewal leaves the stored expiry as it was, so a later poll
\* whose check is stale tries again: with polling subscribed and the remote
\* exchange succeeding in the end, a failed renewal of a poll is followed by
\* a stored renewal.
C13_FailedRenewalRetried == PollRenewalFailed ~> TokenRenewed
\* the renewal of the OBD poll has failed (the poll is still under way) and
\* the state poll, checking the unchanged expiry, has renewed the token
C13_Witness ==
    /\ slots["update_obd"].origin = "callback"
    /\ slots["update_obd"].pc = "update"
    /\ slots["update_obd"].log = <<"check_stale", "renew_failed">>
    /\ slots["update"].origin = "callback"
    /\ slots["update"].log = <<"check_stale", "renewed">>
    /\ TokenRenewed

\* the refresh of the setup in slot s has run to its end
SetupRefreshDone(s) ==
    /\ SetupRefreshed(s, "return")
    /\ slots[s].log # <<>>
    /\ slots[s].log[Len(slots[s].log)] = "update"
\* the interval the options hold for a name, or its default
ConfiguredInterval(options, key) ==
    Get(options, key,
        IF key = CONF_SCAN_INTERVAL THEN DEFAULT_SCAN_INTERVAL
        ELSE DEFAULT_SCAN_OBD_INTERVAL)

\* C14: the OBD refresh of a setup starts when its state refresh has run to
\* its end, and with nothing of the account registered or subscribed yet; the
\* setup succeeds when the OBD refresh has run to its end, and then the
\* account is the one registered for the entry and has exactly one live
\* subscription per interval name, of the interval the options hold for the
\* name, or of the default.
C14_SetupRefreshesThenSubscribes ==
    [][/\ (slots'["update_obd"].origin = "setup"
             /\ slots["update_obd"].origin # "setup")
          => /\ SetupRefreshDone("update")
             /\ hass_data' # setup_acct
             /\ \A key \in Keys : LiveCount(subs', setup_acct, key) = 0
       /\ (op'.name = "setup" /\ op'.result = "ok")
          => /\ SetupRefreshDone("update_obd")
             /\ slots["update"].origin # "setup"
             /\ \A key \in Keys : LiveCount(subs, setup_acct, key) = 0
             /\ hass_data' = setup_acct
             /\ \A key \in Keys :
                  /\ LiveCount(subs', setup_acct, key) = 1
                  /\ CopiesIn(unsubscribe_auto_updater'[setup_acct][key], subs') = 1
                  /\ unsubscribe_auto_updater'[setup_acct][key].period
                       = ConfiguredInterval(entry_options, key)
                  /\ unsubscribe_auto_updater'[setup_acct][key].method
                       = MethodFor(key)
      ]_vars
\* a setup has succeeded for an entry whose options hold both intervals
C14_Witness ==
    /\ op.name = "setup" /\ op.result = "ok"
    /\ entry_options # EmptyMap
    /\ hass_data # 0
    /\ \A key \in Keys :
         /\ LiveCount(subs, hass_data, key) = 1
         /\ unsubscribe_auto_updater[hass_data][key].period = entry_options[key]

\* the refresh a subscription of an interval name has to invoke
RefreshOf(key) ==
    CASE key = CONF_SCAN_INTERVAL -> "update"
      [] key = CONF_SCAN_OBD_INTERVAL -> "update_obd"

\* C15: every live subscription, and every handle, of an interval name is
\* bound to the refresh of that name (the state refresh for the state
\* interval, the OBD refresh for the OBD interval), and an invocation runs
\* the refresh of the slot it occupies.
C15_CallbackMatchesName ==
    /\ \A sub \in BagToSet(subs) :
         sub.key \in Keys /\ sub.method = RefreshOf(sub.key)
    /\ \A a \in Accounts, key \in Keys :
         unsubscribe_auto_updater[a][key] # NoSub
         => /\ unsubscribe_auto_updater[a][key].key = key
            /\ unsubscribe_auto_updater[a][key].method = RefreshOf(key)
    /\ \A s \in Slots : slots[s].pc # "idle" => slots[s].method = s
\* both subscriptions of the registered account are live and the OBD
\* refresh runs as a callback
C15_Witness ==
    /\ hass_data # 0
    /\ \A key \in Keys :
         /\ LiveCount(subs, hass_data, key) = 1
         /\ unsubscribe_auto_updater[hass_data][key].method = RefreshOf(key)
    /\ slots["update_obd"].origin = "callback"
    /\ slots["update_obd"].method = "update_obd"
    /\ slots["update_obd"].pc = "update"

\* a renewal is under way: an invocation is between its exchange and its
\* write to the store
RenewalInProgress ==
    \E s \in Slots : slots[s].pc \in {"get_user_id", "set_client", "update_entry"}

\* C16: whenever no renewal is under way, the client of the account of the
\* entry (registered, or being set up) holds the session token and the user
\* id the store holds, also after the state refresh and the OBD refresh have
\* both found the token stale and renewed it side by side.
C16_ClientMatchesStore ==
    ~RenewalInProgress
    => \A a \in Accounts :
         (a = hass_data \/ a = setup_acct)
         => /\ api[a].slnet_token = entry_data.slnet_token
            /\ api[a].user_id = entry_data.user_id

\* C17: from the end of async_unload_entry until the next async_setup_entry
\* starts, the account of the entry has no live subscription, whatever
\* options change or set-intervals call comes in between.
C17_NoSubscriptionAfterUnload ==
    entry_state = "not_loaded"
    => \A key \in Keys : LiveCount(subs, hass_data, key) = 0

\* intervals set_update_interval is called with
IntervalInputs == {MIN_SCAN_INTERVAL, DEFAULT_SCAN_INTERVAL, MIN_SCAN_OBD_INTERVAL}

\* C18: in every state, set_update_interval(key, interval) of an account
\* leaves the handle and the live subscriptions of the other name, and of
\* every other account, as they are, leaves the stored interval values as
\* they are, and invokes no handle but the one of its own name; and a change
\* of the options, which does nothing to the account but call
\* set_update_interval, leaves the stored credentials and the clients as
\* they are.
C18_SetIntervalFrame ==
    /\ [](\A a \in Accounts, key \in Keys, interval \in IntervalInputs :
            LET st == SetUpdateInterval(a, key, interval, AcctState(0))
            IN  /\ \A b \in Accounts, k \in Keys :
                     (b # a \/ k # key)
                     => st.unsub[b][k] = unsubscribe_auto_updater[b][k]
                /\ \A sub \in BagToSet(subs) \cup BagToSet(st.subs) :
                     (sub.acct # a \/ sub.key # key)
                     => CopiesIn(sub, st.subs) = CopiesIn(sub, subs)
                /\ st.intervals = update_intervals
                /\ st.cancels =
                     IF unsubscribe_auto_updater[a][key] # NoSub THEN 1 ELSE 0)
    /\ [][op'.name = "options_flow"
          => entry_data' = entry_data /\ api' = api]_vars
\* the options were applied to the registered account while both of its
\* subscriptions were live: each call of set_update_interval found the
\* subscription of the other name live and left it so
C18_Witness ==
    /\ op.name = "options_flow"
    /\ op.cancels = 2
    /\ hass_data # 0
    /\ entry_state = "loaded"
    /\ \A key \in Keys :
         /\ unsubscribe_auto_updater[hass_data][key] # NoSub
         /\ CopiesIn(unsubscribe_auto_updater[hass_data][key], subs) = 1
         /\ unsubscribe_auto_updater[hass_data][key].period = entry_options[key]

====
